---- MODULE Spec2Model ----
(***************************************************************************)
(* A model of vitessce's SnapWrapper.create_genomic_multivec_zarr           *)
(* (src/vitessce/wrappers.py): the conversion of a cell-by-bin count        *)
(* matrix and a cluster table into a multi-resolution Zarr store.           *)
(*                                                                          *)
(* Strings that the code parses or formats (bin labels, chromosome names,   *)
(* cluster labels, dataset names) are sequences of one-character strings,   *)
(* so that parsing and formatting are computed, character by character.     *)
(* Cell identifiers are only ever compared, and are plain strings.          *)
(***************************************************************************)
EXTENDS Integers, Sequences, FiniteSets, TLC

(***************************************************************************)
(* Bounds of the model.                                                     *)
(***************************************************************************)
\* The longest bin list (number of matrix columns) in the free bin family.
MaxBins == 3
\* The largest count of one matrix entry in the free matrix family.
MaxCount == 1
\* How many times the conversion is called on one wrapper object.
MaxCalls == 2
\* The cap on the reference sequence list (25 in the code, chromosomes[:25]).
ChromCap == 2

(***************************************************************************)
(* Program constants.                                                       *)
(***************************************************************************)
\* range(16): the number of resolutions.
NumLevels == 16
\* fill_value=np.nan: the value of an array element that was never written.
\* Counts are never negative, so -1 stands for it.
NaN == -1
\* out_f.attrs['shape'] = [ num_clusters, 256 ]
TileSize == 256

(***************************************************************************)
(* Characters, integers and their conversions.                              *)
(***************************************************************************)
DigitChars == <<"0", "1", "2", "3", "4", "5", "6", "7", "8", "9">>

IsDigit(ch) == \E d \in 1..10 : DigitChars[d] = ch

DigitValue(ch) == (CHOOSE d \in 1..10 : DigitChars[d] = ch) - 1

RECURSIVE Pow2(_)
Pow2(x) == IF x = 0 THEN 1 ELSE 2 * Pow2(x - 1)

\* Ceil with the division rounded down.
CeilAsFloor(a, b) == a \div b

\* math.ceil(a / b) for a >= 0, b > 0.
Ceil(a, b) == (a + b - 1) \div b

\* str(n) / f"{n}" for an integer n >= 0: its decimal digits.
RECURSIVE ToStr(_)
ToStr(n) == IF n < 10 THEN <<DigitChars[n + 1]>>
            ELSE Append(ToStr(n \div 10), DigitChars[(n % 10) + 1])

\* The value of a non-empty all-digit sequence.
RECURSIVE DigitsValue(_)
DigitsValue(s) == IF Len(s) = 0 THEN 0
                  ELSE 10 * DigitsValue(SubSeq(s, 1, Len(s) - 1)) + DigitValue(s[Len(s)])

AllDigits(s) == Len(s) > 0 /\ \A p \in 1..Len(s) : IsDigit(s[p])

\* int(s): [ok |-> FALSE] stands for ValueError. Over the characters used
\* here int accepts an optional minus sign followed by one or more digits.
PyInt(s) ==
    IF AllDigits(s) THEN [ok |-> TRUE, v |-> DigitsValue(s)]
    ELSE IF Len(s) > 1 /\ s[1] = "-" /\ AllDigits(Tail(s))
         THEN [ok |-> TRUE, v |-> 0 - DigitsValue(Tail(s))]
         ELSE [ok |-> FALSE, v |-> 0]

\* s.index(ch), one-based; 0 stands for ValueError (ch not in s).
IndexOf(s, ch) ==
    IF \E p \in 1..Len(s) : s[p] = ch
    THEN CHOOSE p \in 1..Len(s) : s[p] = ch /\ \A q \in 1..(p - 1) : s[q] # ch
    ELSE 0

Min(a, b) == IF a < b THEN a ELSE b

RECURSIVE SumSeq(_)
SumSeq(s) == IF Len(s) = 0 THEN 0 ELSE s[1] + SumSeq(Tail(s))

\* numpy's sum of a vector: NaN when an element is NaN.
NpSum(s) == IF \E p \in 1..Len(s) : s[p] = NaN THEN NaN ELSE SumSeq(s)

RECURSIVE Flatten(_)
Flatten(ss) == IF Len(ss) = 0 THEN <<>> ELSE ss[1] \o Flatten(Tail(ss))

\* The subsequence of s of the elements at the positions where keep holds.
RECURSIVE SelectIdx(_, _, _)
SelectIdx(s, keep, p) ==
    IF p > Len(s) THEN <<>>
    ELSE (IF keep[p] THEN <<s[p]>> ELSE <<>>) \o SelectIdx(s, keep, p + 1)

(***************************************************************************)
(* Bin labels: chrName:binStart-binEnd.                                     *)
(***************************************************************************)
\* A parse result: nan stands for np.nan.
Parsed(v) == [nan |-> FALSE, v |-> v]
NanName == [nan |-> TRUE, v |-> <<>>]
NanInt == [nan |-> TRUE, v |-> 0]

\* bin_name[:bin_name.index(':')]
convert_bin_name_to_chr_name(bin_name) ==
    LET c == IndexOf(bin_name, ":")
    IN  IF c = 0 THEN NanName ELSE Parsed(SubSeq(bin_name, 1, c - 1))

\* int(bin_name[bin_name.index(':')+1:bin_name.index('-')])
convert_bin_name_to_chr_start(bin_name) ==
    LET c == IndexOf(bin_name, ":")
        d == IndexOf(bin_name, "-")
    IN  IF c = 0 \/ d = 0 THEN NanInt
        ELSE LET r == PyInt(SubSeq(bin_name, c + 1, d - 1))
             IN  IF r.ok THEN Parsed(r.v) ELSE NanInt

\* int(bin_name[bin_name.index('-')+1:])
convert_bin_name_to_chr_end(bin_name) ==
    LET d == IndexOf(bin_name, "-")
    IN  IF d = 0 THEN NanInt
        ELSE LET r == PyInt(SubSeq(bin_name, d + 1, Len(bin_name)))
             IN  IF r.ok THEN Parsed(r.v) ELSE NanInt

\* lambda x: "chr" + x
AddChrPrefix(x) == <<"c", "h", "r">> \o x

\* The rows of the bins frame after the three columns are added: idx is the
\* frame's index label (the position in the bin list, from 0).
BinRows(labels) ==
    [p \in 1..Len(labels) |->
        [idx |-> p - 1,
         label |-> labels[p],
         chr_name |-> convert_bin_name_to_chr_name(labels[p]),
         chr_start |-> convert_bin_name_to_chr_start(labels[p]),
         chr_end |-> convert_bin_name_to_chr_end(labels[p])]]

\* dropna(subset=["chr_name", "chr_start", "chr_end"]): the rows keep their
\* index labels.
DropNa(rows) ==
    SelectIdx(rows,
              [p \in 1..Len(rows) |->
                  ~rows[p].chr_name.nan /\ ~rows[p].chr_start.nan /\ ~rows[p].chr_end.nan],
              1)

(***************************************************************************)
(* The reference coordinate system. negspy's hg38 table is not part of the  *)
(* repository; a short table with short sequences stands for it.            *)
(***************************************************************************)
\* nc.get_chromorder('hg38'): the names, in negspy's order.
HgChromOrder ==
    << <<"c", "h", "r", "1">>, <<"c", "h", "r", "2">>,
       <<"c", "h", "r", "X">>, <<"c", "h", "r", "M">> >>

\* nc.get_chrominfo('hg38').chrom_lengths[x]
HgChromLength(x) ==
    CASE x = <<"c", "h", "r", "1">> -> 10
      [] x = <<"c", "h", "r", "2">> -> 5
      [] x = <<"c", "h", "r", "X">> -> 7
      [] x = <<"c", "h", "r", "M">> -> 3

\* [ str(chr_name) for chr_name in chromosomes[:25] ]
chromosomes == SubSeq(HgChromOrder, 1, Min(ChromCap, Len(HgChromOrder)))

num_chromosomes == Len(chromosomes)

chroms_length_arr == [c \in 1..num_chromosomes |-> HgChromLength(chromosomes[c])]

\* chroms_cumsum_arr without the leading zero: np.cumsum alone.
CumsumWithoutZero ==
    [c \in 1..num_chromosomes |-> SumSeq(SubSeq(chroms_length_arr, 1, c))]

\* np.concatenate((np.array([0]), np.cumsum(chroms_length_arr)))
chroms_cumsum_arr ==
    [c \in 1..(num_chromosomes + 1) |-> SumSeq(SubSeq(chroms_length_arr, 1, c - 1))]

chromosomes_set == {chromosomes[c] : c \in 1..num_chromosomes}

\* dict(zip(chromosomes, chroms_length_arr)): the zip stops at the shorter
\* list, and a later pair of the same name replaces an earlier one.
ZipLookup(keys, values, k) ==
    LET n == Min(Len(keys), Len(values))
        last == CHOOSE c \in 1..n : keys[c] = k /\ \A c2 \in (c + 1)..n : keys[c2] # k
    IN  values[last]

chrom_name_to_length(chr_name) == ZipLookup(chromosomes, chroms_length_arr, chr_name)

chrom_name_to_cumsum(chr_name) == ZipLookup(chromosomes, chroms_cumsum_arr, chr_name)

(***************************************************************************)
(* Resolutions.                                                             *)
(***************************************************************************)
\* [ starting_resolution*(2**x) for x in range(16) ]
resolutions(w) == [x \in 1..NumLevels |-> w * Pow2(x - 1)]

\* [ (2**x) for x in range(16) ]
resolution_exps == [x \in 1..NumLevels |-> Pow2(x - 1)]

\* SortedDescending without the reverse: the list as it was built.
SortedAsBuilt(rs) == rs

\* sorted(resolutions, reverse=True): the list is ascending, so this is its
\* reverse.
SortedDescending(rs) == [x \in 1..Len(rs) |-> rs[Len(rs) + 1 - x]]

(***************************************************************************)
(* Store paths: a path is the sequence of its names.                        *)
(***************************************************************************)
ChromosomesName == <<"c", "h", "r", "o", "m", "o", "s", "o", "m", "e", "s">>

GroupPath(chr_name) == <<ChromosomesName, chr_name>>

\* ArrayPath naming the first chromosome's array, whatever the chromosome.
ArrayPathOfFirst(chr_name, resolution) == <<ChromosomesName, chromosomes[1], ToStr(resolution)>>

\* chromosomes_group[chr_name][str(resolution)]
ArrayPath(chr_name, resolution) == <<ChromosomesName, chr_name, ToStr(resolution)>>

\* f"chromosomes/{chr_name}/{resolution}"
PathString(chr_name, resolution) ==
    ChromosomesName \o <<"/">> \o chr_name \o <<"/">> \o ToStr(resolution)

\* NewArray with a fill value of zero.
NewArrayZeros(nrows, ncols) == [r \in 1..nrows |-> [c \in 1..ncols |-> 0]]

\* A new dataset of the given shape: every element is the fill value.
NewArray(nrows, ncols) == [r \in 1..nrows |-> [c \in 1..ncols |-> NaN]]

(***************************************************************************)
(* Bin-index reconciliation of one chromosome.                              *)
(***************************************************************************)
\* in_mtx.shape[1]; the matrix is a sequence of rows (cells).
NumCols(mtx) == IF Len(mtx) = 0 THEN 0 ELSE Len(mtx[1])

\* in_bins_df.loc[in_bins_df["chr_name"] == chr_name]
ChrBinsIn(bins, chr_name) ==
    SelectIdx(bins, [p \in 1..Len(bins) |-> bins[p].chr_name.v = chr_name], 1)

\* int(chr_bins_in_df.head(1).iloc[0].name)
ChrBinIStart(chr_bins) == chr_bins[1].idx

\* int(chr_bins_in_df.tail(1).iloc[0].name) + 1
ChrBinIEnd(chr_bins) == chr_bins[Len(chr_bins)].idx + 1

\* in_mtx[:,chr_bin_i_start:chr_bin_i_end]
ChrMtxSlice(mtx, i_start, i_end) ==
    [r \in 1..Len(mtx) |-> SubSeq(mtx[r], i_start + 1, Min(i_end, Len(mtx[r])))]

\* chr_bins_gt_df: the "ground truth" bins from position 0 to the end of the
\* chromosome, with their label and their "i" past every matrix column.
ChrBinsGt(chr_name, chr_len, w, ncols) ==
    [k \in 1..Ceil(chr_len, w) |->
        LET chr_start == (k - 1) * w + 1
            chr_end == (k - 1) * w + w
        IN  [chr_start |-> chr_start,
             chr_end |-> chr_end,
             label |-> chr_name \o <<":">> \o ToStr(chr_start) \o <<"-">> \o ToStr(chr_end),
             i |-> (k - 1) + (ncols + 1)]]

\* The "i" values of one ground-truth row after the right join on the label
\* and the replacement of NaN by i_gt: one per input row of that label, in
\* input order, where "i" is the row's position among the chromosome's
\* input rows (reset_index); i_gt when no input row has the label.
JoinRowI(chr_bins, gt_row) ==
    LET hits == SelectIdx([r \in 1..Len(chr_bins) |-> r - 1],
                          [r \in 1..Len(chr_bins) |-> chr_bins[r].label = gt_row.label],
                          1)
    IN  IF Len(hits) = 0 THEN <<gt_row.i>> ELSE hits

\* chr_bins_in_join_df["i"]
ChrBinsJoinI(chr_bins, gt) == Flatten([k \in 1..Len(gt) |-> JoinRowI(chr_bins, gt[k])])

\* ChrMtxJoin without the fillna: a bin with no matrix column stays NaN.
ChrMtxJoinNoFill(chr_mtx, join_i) ==
    [r \in 1..Len(chr_mtx) |->
        [j \in 1..Len(join_i) |->
            IF join_i[j] + 1 \in 1..Len(chr_mtx[r]) THEN chr_mtx[r][join_i[j] + 1] ELSE NaN]]

\* chr_bins_i_df.join(chr_mtx_df, how='left', on='i'), fillna(0.0), and the
\* transpose back: row r holds, for each joined bin, column i of the slice,
\* or 0 where the slice has no column i.
ChrMtxJoin(chr_mtx, join_i) ==
    [r \in 1..Len(chr_mtx) |->
        [j \in 1..Len(join_i) |->
            IF join_i[j] + 1 \in 1..Len(chr_mtx[r]) THEN chr_mtx[r][join_i[j] + 1] ELSE 0]]

\* Lines 590-644 for one chromosome with at least one input bin: the new
\* chr_mtx, with its number of columns (the number of joined bins).
ReconciledMtx(mtx, bins, chr_name, w) ==
    LET chr_bins == ChrBinsIn(bins, chr_name)
        slice == ChrMtxSlice(mtx, ChrBinIStart(chr_bins), ChrBinIEnd(chr_bins))
        gt == ChrBinsGt(chr_name, chrom_name_to_length(chr_name), w, NumCols(mtx))
        join_i == ChrBinsJoinI(chr_bins, gt)
    IN  [ncols |-> Len(join_i), rows |-> ChrMtxJoin(slice, join_i)]

(***************************************************************************)
(* Clusters.                                                                *)
(***************************************************************************)
\* A value of the cluster column: an integer or a string.
IntVal(n) == [kind |-> "int", n |-> n, s |-> <<>>]
StrVal(s) == [kind |-> "str", n |-> 0, s |-> s]

\* One value under astype(str).
AsTypeStr(v) == IF v.kind = "int" THEN StrVal(ToStr(v.n)) ELSE v

\* in_clusters_df["cluster"].astype(str), assigned back to the column.
ClustersAsStr(clusters) ==
    [p \in 1..Len(clusters) |-> [cell |-> clusters[p].cell, cluster |-> AsTypeStr(clusters[p].cluster)]]

\* in_clusters_df["cluster"].unique().tolist(): first occurrences, in order.
UniqueClusters(clusters) ==
    SelectIdx([p \in 1..Len(clusters) |-> clusters[p].cluster.s],
              [p \in 1..Len(clusters) |->
                  \A q \in 1..(p - 1) : clusters[q].cluster.s # clusters[p].cluster.s],
              1)

\* AllInts for a sort that takes no key and so never calls int.
AllIntsUnchecked(ids) == TRUE

\* Whether int(x) succeeds for every element: otherwise sort raises ValueError.
AllInts(ids) == \A p \in 1..Len(ids) : PyInt(ids[p]).ok

\* One step of a stable insertion sort by key=int.
RECURSIVE InsertByInt(_, _)
InsertByInt(sorted, x) ==
    IF Len(sorted) = 0 THEN <<x>>
    ELSE IF PyInt(sorted[Len(sorted)]).v <= PyInt(x).v THEN Append(sorted, x)
         ELSE Append(InsertByInt(SubSeq(sorted, 1, Len(sorted) - 1), x), sorted[Len(sorted)])

\* SortByInt without the sort: the labels stay in their order of appearance.
SortByIntNone(ids) == ids

\* cluster_ids.sort(key=int): stable, ascending by integer value.
RECURSIVE SortByInt(_)
SortByInt(ids) ==
    IF Len(ids) = 0 THEN <<>>
    ELSE InsertByInt(SortByInt(SubSeq(ids, 1, Len(ids) - 1)), ids[Len(ids)])

\* cluster_df.index.values.tolist() for one cluster.
ClusterCellIds(clusters, cluster_id) ==
    {clusters[p].cell : p \in {q \in 1..Len(clusters) : clusters[q].cluster.s = cluster_id}}

\* ClusterCellsTf taking matrix row r for the cell of row r of the cluster
\* table, whatever its barcode.
ClusterCellsTfByPosition(barcodes, clusters, cluster_id) ==
    [r \in 1..Len(barcodes) |-> r <= Len(clusters) /\ clusters[r].cluster.s = cluster_id]

\* ClusterCellsTf selecting every row, whatever its cluster.
ClusterCellsTfAll(barcodes, clusters, cluster_id) == [r \in 1..Len(barcodes) |-> TRUE]

\* (in_barcodes_df[0].isin(cluster_cell_ids)).values
ClusterCellsTf(barcodes, clusters, cluster_id) ==
    [r \in 1..Len(barcodes) |-> barcodes[r] \in ClusterCellIds(clusters, cluster_id)]

\* ClusterProfile as a sum that has no value over no rows.
ClusterProfileNaNWhenEmpty(chr_mtx, ncols, tf) ==
    LET rows == SelectIdx(chr_mtx, tf, 1)
    IN  [j \in 1..ncols |->
            IF Len(rows) = 0 THEN NaN ELSE NpSum([r \in 1..Len(rows) |-> rows[r][j]])]

\* chr_mtx[cluster_cells_tf,:].sum(axis=0)
ClusterProfile(chr_mtx, ncols, tf) ==
    LET rows == SelectIdx(chr_mtx, tf, 1)
    IN  [j \in 1..ncols |-> NpSum([r \in 1..Len(rows) |-> rows[r][j]])]

(***************************************************************************)
(* The resolution pyramid.                                                  *)
(***************************************************************************)
\* PaddedLen cutting the values down to a multiple of exp instead.
PaddedLenTruncated(len, exp) == len - (len % exp)

\* The length of values after the first padding (to a multiple of exp).
PaddedLen(len, exp) == IF len % exp > 0 THEN len + (exp - (len % exp)) ELSE len

\* np.reshape(values, (-1, resolution_exp)).sum(axis=-1) on the padded
\* values: the appended zeros add nothing, so each run is summed up to the
\* end of values.
ReshapeSum(values, exp) ==
    [t \in 1..(PaddedLen(Len(values), exp) \div exp) |->
        NpSum(SubSeq(values, (t - 1) * exp + 1, Min(t * exp, Len(values))))]

\* The second padding: zeros up to arr_len, when the array is shorter.
PadTo(arr, arr_len) ==
    IF arr_len - Len(arr) > 0 THEN arr \o [p \in 1..(arr_len - Len(arr)) |-> 0] ELSE arr

\* The array of one cluster at one resolution (lines 661-675).
LevelArr(cluster_profile, exp, arr_len) == PadTo(ReshapeSum(cluster_profile, exp), arr_len)

(***************************************************************************)
(* The inputs a wrapper is constructed with.                                *)
(***************************************************************************)
\* Bin labels as bins.txt holds them (no "chr" prefix).
Lbl_1_1_4 == <<"1", ":", "1", "-", "4">>
Lbl_1_5_8 == <<"1", ":", "5", "-", "8">>
Lbl_1_9_12 == <<"1", ":", "9", "-", "1", "2">>
Lbl_2_1_4 == <<"2", ":", "1", "-", "4">>
Lbl_1_1_2 == <<"1", ":", "1", "-", "2">>
Lbl_1_9_10 == <<"1", ":", "9", "-", "1", "0">>
Lbl_2_5_6 == <<"2", ":", "5", "-", "6">>
\* Malformed: no '-', no ':', a non-numeric start, a non-numeric end, an
\* empty start.
Lbl_NoDash == <<"1", ":", "5", "8">>
Lbl_NoColon == <<"1", "5", "-", "8">>
Lbl_BadStart == <<"1", ":", "a", "-", "8">>
Lbl_BadEnd == <<"1", ":", "5", "-", "b">>
Lbl_EmptyStart == <<"1", ":", "-", "5", "-", "8">>
\* Well-formed, but of a sequence outside the canonical set.
Lbl_OutOfSet == <<"7", ":", "5", "-", "8">>
\* Well-formed, of chr1, but equal to no label of the synthetic index.
Lbl_LeadingZero == <<"1", ":", "0", "5", "-", "8">>
Lbl_NegativeEnd == <<"1", ":", "5", "-", "-", "8">>

StartingResolutions == {2, 4}

\* The labels the free bin family draws from, for each base width: two
\* slots of chr1, one of chr2, a malformed label and an off-grid label.
LabelPool(w) ==
    IF w = 4 THEN {Lbl_1_1_4, Lbl_1_9_12, Lbl_2_1_4, Lbl_NoDash, Lbl_1_1_2}
    ELSE {Lbl_1_1_2, Lbl_1_9_10, Lbl_2_5_6, Lbl_NoDash, Lbl_1_1_4}

ExtraLabels ==
    {Lbl_1_5_8, Lbl_NoColon, Lbl_BadStart, Lbl_BadEnd, Lbl_EmptyStart, Lbl_OutOfSet,
     Lbl_LeadingZero, Lbl_NegativeEnd}

Barcodes3 == <<"A", "B", "C">>

Row(cell, cluster) == [cell |-> cell, cluster |-> cluster]

\* Clusters 1 = {A, B} and 2 = {C}, as integers (as read from a CSV file).
DefaultClusters == <<Row("A", IntVal(1)), Row("B", IntVal(1)), Row("C", IntVal(2))>>

Permutations3 ==
    {<<1, 2, 3>>, <<1, 3, 2>>, <<2, 1, 3>>, <<2, 3, 1>>, <<3, 1, 2>>, <<3, 2, 1>>}

ClusterTables ==
    {[p \in 1..3 |-> DefaultClusters[perm[p]]] : perm \in Permutations3}
    \cup {
      \* string labels whose order as strings differs from their order as integers
      <<Row("A", StrVal(<<"1", "0">>)), Row("B", StrVal(<<"1", "0">>)), Row("C", StrVal(<<"9">>))>>,
      \* a label that is no integer
      <<Row("A", IntVal(1)), Row("B", IntVal(1)), Row("C", StrVal(<<"x">>))>>,
      \* a cluster whose only cell is no barcode of the matrix
      <<Row("A", IntVal(1)), Row("B", IntVal(1)), Row("C", IntVal(2)), Row("D", IntVal(3))>>,
      \* two labels of the same integer value
      <<Row("A", StrVal(<<"1">>)), Row("B", StrVal(<<"1">>)), Row("C", StrVal(<<"0", "1">>))>>,
      \* a barcode of the matrix that the table does not list
      <<Row("A", IntVal(1)), Row("C", IntVal(2))>>,
      \* a cell identifier listed twice, under two clusters
      <<Row("A", IntVal(1)), Row("B", IntVal(1)), Row("C", IntVal(2)), Row("A", IntVal(2))>>,
      \* no clusters at all
      <<>> }

\* A matrix with positive counts, different in every column.
GenericMtx(ncols) == [r \in 1..3 |-> [j \in 1..ncols |-> r + 3 * (j - 1)]]

Input(bins, mtx, clusters, w) ==
    [bins |-> bins, mtx |-> mtx, barcodes |-> Barcodes3, clusters |-> clusters, w |-> w]

\* Every bin list up to MaxBins labels of the pool, for each base width.
BinFamily ==
    UNION {{Input(b, GenericMtx(Len(b)), DefaultClusters, w) :
                b \in UNION {[1..n -> LabelPool(w)] : n \in 0..MaxBins}} :
           w \in StartingResolutions}

\* A matrix whose only counts are in column col: one per cell.
IndicatorMtx(ncols, col) == [r \in 1..3 |-> [j \in 1..ncols |-> IF j = col THEN 1 ELSE 0]]

\* One more label between two bins of chr1, with counts in every column or
\* in the column of that label alone.
ExtraLabelFamily ==
    {Input(<<Lbl_1_1_4, x, Lbl_1_9_12>>, m, DefaultClusters, 4) :
        x \in ExtraLabels \cup {Lbl_NoDash}, m \in {GenericMtx(3), IndicatorMtx(3, 2)}}

\* A malformed label and an off-grid label between two bins of chr1, with
\* counts in every column or in the column of the off-grid label alone.
OffGridFamily ==
    {Input(<<Lbl_1_1_4, Lbl_NoDash, x, Lbl_1_9_12>>, m, DefaultClusters, 4) :
        x \in {Lbl_1_1_2, Lbl_LeadingZero}, m \in {GenericMtx(4), IndicatorMtx(4, 3)}}

\* Every matrix of counts up to MaxCount, for two bins of chr1.
MatrixFamily ==
    {Input(<<Lbl_1_1_4, Lbl_1_9_12>>, m, DefaultClusters, 4) :
        m \in [1..3 -> [1..2 -> 0..MaxCount]]}

ClusterFamily ==
    {Input(<<Lbl_1_1_4, Lbl_1_9_12, Lbl_2_1_4>>, GenericMtx(3), t, 4) : t \in ClusterTables}

\* The end-to-end example: clusters {A, B} and {C}, chr1:1-4 with A=1, B=2,
\* C=0, chr1:5-8 absent, chr1:9-12 with A=0, B=0, C=3, base resolution 4.
ExampleInput ==
    Input(<<Lbl_1_1_4, Lbl_1_9_12>>, << <<1, 0>>, <<2, 0>>, <<0, 3>> >>, DefaultClusters, 4)

Inputs ==
    BinFamily \cup ExtraLabelFamily \cup OffGridFamily \cup MatrixFamily \cup ClusterFamily
        \cup {ExampleInput}

(***************************************************************************)
(* State.                                                                   *)
(***************************************************************************)
VARIABLES
    in_mtx,               \* self.in_mtx: rows of counts, one row per barcode
    in_barcodes_df,       \* self.in_barcodes_df[0]: the cell of each matrix row
    in_bins_df,           \* self.in_bins_df[0]: the label of each matrix column
    in_clusters_df,       \* self.in_clusters_df: rows (cell, cluster)
    starting_resolution,  \* self.starting_resolution
    store_groups,         \* the groups of the store at zarr_filepath
    store_arrays,         \* its arrays, by path
    store_attrs,          \* its root attributes, by name
    bins_df,              \* the local in_bins_df after dropna
    cluster_ids,          \* the local cluster_ids
    chr_mtx,              \* the local chr_mtx after the join
    pc,                   \* where the call is
    chr_i,                \* the position of the chromosome loop
    cluster_i,            \* the position of the cluster loop
    res_i,                \* the position of the resolution loop
    attr_i,               \* the next root attribute to write
    calls,                \* how many calls were started
    err,                  \* the exception that ended the call
    prev_store,           \* what the store held when the latest call began
    cell_sets_json,       \* what the latest call of _create_cell_sets_json returned
    file_defs,            \* how the latest get_cells, get_cell_sets or
                          \* get_genomic_profiles ended (none since a run began)
    pad                   \* the padding of one vector, level by level

vars ==
    <<in_mtx, in_barcodes_df, in_bins_df, in_clusters_df, starting_resolution,
      store_groups, store_arrays, store_attrs, bins_df, cluster_ids, chr_mtx,
      pc, chr_i, cluster_i, res_i, attr_i, calls, err, prev_store, cell_sets_json, file_defs,
      pad>>

wrapper_vars == <<in_mtx, in_barcodes_df, in_bins_df, in_clusters_df, starting_resolution>>

store_vars == <<store_groups, store_arrays, store_attrs>>

NoMtx == [ncols |-> 0, rows |-> <<>>]

NoStore == [completed |-> FALSE, groups |-> {}, arrays |-> <<>>, attrs |-> <<>>]

\* No call of _create_cell_sets_json has returned.
NoCellSets == [status |-> "none", children |-> <<>>]

\* No get_* call has ended since the latest run began.
NoFileDefs == [status |-> "none", url |-> <<>>, port |-> 0, dataset_uid |-> <<>>, obj_i |-> 0,
               suffix |-> <<>>]

\* No vector is being padded.
NoPad == [n |-> 0, w |-> 0, k |-> 0 - 1, grouped |-> 0, arr_len |-> 0, final |-> 0]

\* SnapWrapper.__init__: the wrapper holds its inputs; nothing is written.
InitWith(inp) ==
    /\ in_mtx = inp.mtx
    /\ in_barcodes_df = inp.barcodes
    /\ in_bins_df = inp.bins
    /\ in_clusters_df = inp.clusters
    /\ starting_resolution = inp.w
    /\ store_groups = {}
    /\ store_arrays = <<>>
    /\ store_attrs = <<>>
    /\ bins_df = <<>>
    /\ cluster_ids = <<>>
    /\ chr_mtx = NoMtx
    /\ pc = "idle"
    /\ chr_i = 0
    /\ cluster_i = 0
    /\ res_i = 0
    /\ attr_i = 0
    /\ calls = 0
    /\ err = "none"
    /\ prev_store = NoStore
    /\ cell_sets_json = NoCellSets
    /\ file_defs = NoFileDefs

Init == (\E inp \in Inputs : InitWith(inp)) /\ pad = NoPad

(***************************************************************************)
(* create_genomic_multivec_zarr, step by step.                              *)
(***************************************************************************)
num_clusters == Len(cluster_ids)

\* CurChrName with the loop running over the chromosomes from the last.
CurChrNameReversed == chromosomes[num_chromosomes + 1 - chr_i]

\* The chromosome and the resolution the loops are at.
CurChrName == chromosomes[chr_i]
CurChrLen == chrom_name_to_length(CurChrName)
CurResolution == resolutions(starting_resolution)[res_i]

\* Lines 499-537: the call begins; the labels of the wrapper's own bins
\* frame get the "chr" prefix, are parsed, and the rows that do not parse
\* are dropped from the local frame.
ParseBins ==
    /\ pc \in {"idle", "done", "error"}
    /\ calls < MaxCalls
    /\ in_bins_df' = [p \in 1..Len(in_bins_df) |-> AddChrPrefix(in_bins_df[p])]
    /\ bins_df' = DropNa(BinRows(in_bins_df'))
    /\ prev_store' = [completed |-> pc = "done", groups |-> store_groups,
                      arrays |-> store_arrays, attrs |-> store_attrs]
    /\ calls' = calls + 1
    /\ pc' = "open"
    /\ err' = "none"
    /\ cluster_ids' = <<>>
    /\ chr_mtx' = NoMtx
    /\ chr_i' = 0
    /\ cluster_i' = 0
    /\ res_i' = 0
    /\ attr_i' = 0
    /\ file_defs' = NoFileDefs
    /\ UNCHANGED <<in_mtx, in_barcodes_df, in_clusters_df, starting_resolution, store_vars,
                   cell_sets_json, pad>>

\* OpenStore opening the path for update: what it holds stays.
OpenStoreKeepingContent ==
    /\ pc = "open"
    /\ store_groups' = store_groups \cup {<<>>, <<ChromosomesName>>}
    /\ pc' = "clusters"
    /\ UNCHANGED <<wrapper_vars, store_arrays, store_attrs, bins_df, cluster_ids, chr_mtx,
                   chr_i, cluster_i, res_i, attr_i, calls, err, prev_store, cell_sets_json, file_defs, pad>>

\* Lines 540-544: zarr.open(mode='w') empties the path and makes the root
\* group; then the chromosomes group is created.
OpenStore ==
    /\ pc = "open"
    /\ store_groups' = {<<>>, <<ChromosomesName>>}
    /\ store_arrays' = <<>>
    /\ store_attrs' = <<>>
    /\ pc' = "clusters"
    /\ UNCHANGED <<wrapper_vars, bins_df, cluster_ids, chr_mtx, chr_i, cluster_i, res_i,
                   attr_i, calls, err, prev_store, cell_sets_json, file_defs, pad>>

\* NextChromosome leaving the loop after any chromosome.
NextChromosomeToAttrs(c) ==
    /\ chr_i' = c + 1
    /\ pc' = "attrs"
    /\ attr_i' = 1

\* Where the chromosome loop goes from chromosome c: to the next one, or to
\* the root attributes.
NextChromosome(c) ==
    /\ chr_i' = c + 1
    /\ pc' = IF c + 1 <= num_chromosomes THEN "group" ELSE "attrs"
    /\ attr_i' = IF c + 1 <= num_chromosomes THEN attr_i ELSE 1

\* Lines 565-569: the cluster column becomes strings (in the wrapper's own
\* frame), and the distinct labels are sorted by integer value.
ClusterIds ==
    /\ pc = "clusters"
    /\ in_clusters_df' = ClustersAsStr(in_clusters_df)
    /\ AllInts(UniqueClusters(in_clusters_df'))
    /\ cluster_ids' = SortByInt(UniqueClusters(in_clusters_df'))
    /\ NextChromosome(0)
    /\ UNCHANGED <<in_mtx, in_barcodes_df, in_bins_df, starting_resolution, store_vars,
                   bins_df, chr_mtx, cluster_i, res_i, calls, err, prev_store, cell_sets_json, file_defs, pad>>

\* Line 567 when a label is no integer: int raises ValueError.
ClusterIdsError ==
    /\ pc = "clusters"
    /\ in_clusters_df' = ClustersAsStr(in_clusters_df)
    /\ ~AllInts(UniqueClusters(in_clusters_df'))
    /\ cluster_ids' = UniqueClusters(in_clusters_df')
    /\ pc' = "error"
    /\ err' = "ValueError"
    /\ UNCHANGED <<in_mtx, in_barcodes_df, in_bins_df, starting_resolution, store_vars,
                   bins_df, chr_mtx, chr_i, cluster_i, res_i, attr_i, calls, prev_store, cell_sets_json, file_defs, pad>>

\* Line 573: chromosomes_group.create_group(chr_name).
CreateGroup ==
    /\ pc = "group"
    /\ store_groups' = store_groups \cup {GroupPath(CurChrName)}
    /\ pc' = "create"
    /\ res_i' = 1
    /\ UNCHANGED <<wrapper_vars, store_arrays, store_attrs, bins_df, cluster_ids, chr_mtx,
                   chr_i, cluster_i, attr_i, calls, err, prev_store, cell_sets_json, file_defs, pad>>

\* Lines 575-577: one dataset, filled with NaN.
CreateDataset ==
    /\ pc = "create"
    /\ store_arrays' =
          (ArrayPath(CurChrName, CurResolution) :>
              NewArray(num_clusters, Ceil(CurChrLen, CurResolution))) @@ store_arrays
    /\ IF res_i < NumLevels
       THEN /\ res_i' = res_i + 1
            /\ pc' = "create"
       ELSE /\ res_i' = res_i
            /\ pc' = "reconcile"
    /\ UNCHANGED <<wrapper_vars, store_groups, store_attrs, bins_df, cluster_ids, chr_mtx,
                   chr_i, cluster_i, attr_i, calls, err, prev_store, cell_sets_json, file_defs, pad>>

\* Lines 584-588: no input bin has this chromosome's name; on to the next.
SkipChromosome ==
    /\ pc = "reconcile"
    /\ Len(ChrBinsIn(bins_df, CurChrName)) = 0
    /\ NextChromosome(chr_i)
    /\ UNCHANGED <<wrapper_vars, store_vars, bins_df, cluster_ids, chr_mtx, cluster_i,
                   res_i, calls, err, prev_store, cell_sets_json, file_defs, pad>>

\* Lines 590-644: the chromosome's slice of the matrix is joined onto the
\* ground-truth bins. With no cluster the cluster loop has no iteration.
Reconcile ==
    /\ pc = "reconcile"
    /\ Len(ChrBinsIn(bins_df, CurChrName)) > 0
    /\ chr_mtx' = ReconciledMtx(in_mtx, bins_df, CurChrName, starting_resolution)
    /\ IF num_clusters > 0
       THEN /\ pc' = "fill"
            /\ cluster_i' = 1
            /\ res_i' = 1
            /\ UNCHANGED <<chr_i, attr_i, pad>>
       ELSE /\ NextChromosome(chr_i)
            /\ UNCHANGED <<cluster_i, res_i, pad>>
    /\ UNCHANGED <<wrapper_vars, store_vars, bins_df, cluster_ids, calls, err, prev_store, cell_sets_json, file_defs, pad>>

\* Lines 649-657: the profile of the cluster the loop is at.
CurProfile ==
    ClusterProfile(chr_mtx.rows, chr_mtx.ncols,
                   ClusterCellsTf(in_barcodes_df, in_clusters_df, cluster_ids[cluster_i]))

\* Lines 661-675: the array of that cluster at the resolution the loop is at.
CurArr == LevelArr(CurProfile, resolution_exps[res_i], Ceil(CurChrLen, CurResolution))

\* Line 677: the array is stored as row cluster_index of the dataset.
WriteRow ==
    /\ pc = "fill"
    /\ Len(CurArr) = Ceil(CurChrLen, CurResolution)
    /\ store_arrays' =
          [store_arrays EXCEPT ![ArrayPath(CurChrName, CurResolution)][cluster_i] = CurArr]
    /\ IF res_i < NumLevels
       THEN /\ res_i' = res_i + 1
            /\ UNCHANGED <<pc, cluster_i, chr_i, attr_i, pad>>
       ELSE IF cluster_i < num_clusters
            THEN /\ cluster_i' = cluster_i + 1
                 /\ res_i' = 1
                 /\ UNCHANGED <<pc, chr_i, attr_i, pad>>
            ELSE /\ NextChromosome(chr_i)
                 /\ UNCHANGED <<cluster_i, res_i, pad>>
    /\ UNCHANGED <<wrapper_vars, store_groups, store_attrs, bins_df, cluster_ids, chr_mtx,
                   calls, err, prev_store, cell_sets_json, file_defs, pad>>

\* Line 677 when the array's length is not the dataset's width: the store
\* refuses the assignment with ValueError.
WriteRowError ==
    /\ pc = "fill"
    /\ Len(CurArr) # Ceil(CurChrLen, CurResolution)
    /\ pc' = "error"
    /\ err' = "ValueError"
    /\ UNCHANGED <<wrapper_vars, store_vars, bins_df, cluster_ids, chr_mtx, chr_i,
                   cluster_i, res_i, attr_i, calls, prev_store, cell_sets_json, file_defs, pad>>

\* Lines 680-705: the root attributes, in the order they are assigned.
AttrNames == <<"row_infos", "resolutions", "shape", "name", "coordSystem", "multiscales">>

\* Multiscale with a size taken from the data: the largest end of the
\* sequence's retained bins.
MultiscaleDataSpan(chr_name, chr_len) ==
    LET ends == {bins_df[p].chr_end.v :
                    p \in {q \in 1..Len(bins_df) : bins_df[q].chr_name.v = chr_name}}
    IN  [version |-> "0.1",
         name |-> chr_name,
         datasets |-> [x \in 1..NumLevels |->
                          [path |-> PathString(chr_name,
                                      SortedDescending(resolutions(starting_resolution))[x])]],
         type |-> "zarr-multivec",
         metadata |-> [chromoffset |-> chrom_name_to_cumsum(chr_name),
                       chromsize |-> IF ends = {} THEN 0
                                     ELSE CHOOSE e \in ends : \A e2 \in ends : e2 <= e]]

\* One entry of out_f.attrs['multiscales'].
Multiscale(chr_name, chr_len) ==
    [version |-> "0.1",
     name |-> chr_name,
     datasets |-> [x \in 1..NumLevels |->
                      [path |-> PathString(chr_name,
                                  SortedDescending(resolutions(starting_resolution))[x])]],
     type |-> "zarr-multivec",
     metadata |-> [chromoffset |-> chrom_name_to_cumsum(chr_name), chromsize |-> chr_len]]

AttrValue(name) ==
    CASE name = "row_infos" -> [c \in 1..num_clusters |-> [cluster |-> cluster_ids[c]]]
      [] name = "resolutions" -> SortedDescending(resolutions(starting_resolution))
      [] name = "shape" -> <<num_clusters, TileSize>>
      [] name = "name" -> "SnapTools"
      [] name = "coordSystem" -> "hg38"
      [] name = "multiscales" ->
            [c \in 1..Min(Len(chromosomes), Len(chroms_length_arr)) |->
                Multiscale(chromosomes[c], chroms_length_arr[c])]

WriteAttr ==
    /\ pc = "attrs"
    /\ store_attrs' = (AttrNames[attr_i] :> AttrValue(AttrNames[attr_i])) @@ store_attrs
    /\ IF attr_i < Len(AttrNames)
       THEN /\ attr_i' = attr_i + 1
            /\ pc' = "attrs"
       ELSE /\ attr_i' = attr_i
            /\ pc' = "done"
    /\ UNCHANGED <<wrapper_vars, store_groups, store_arrays, bins_df, cluster_ids, chr_mtx,
                   chr_i, cluster_i, res_i, calls, err, prev_store, cell_sets_json, file_defs, pad>>

(***************************************************************************)
(* _create_cell_sets_json.                                                  *)
(***************************************************************************)
\* Lines 747-763: one child per cluster label, in ascending integer value,
\* with the cells of the table's rows of that label, in row order.
CellSetsChildren(clusters) ==
    LET ids == SortByInt(UniqueClusters(clusters))
    IN  [c \in 1..Len(ids) |->
            [name |-> ids[c],
             set |-> SelectIdx([p \in 1..Len(clusters) |-> clusters[p].cell],
                               [p \in 1..Len(clusters) |-> clusters[p].cluster.s = ids[c]],
                               1)]]

\* Lines 736-765, between two calls of create_genomic_multivec_zarr: the
\* cluster column becomes strings in the wrapper's own frame, and the tree
\* of cell sets is returned.
CreateCellSetsJson ==
    /\ pc \in {"idle", "done", "error"}
    /\ in_clusters_df' = ClustersAsStr(in_clusters_df)
    /\ AllInts(UniqueClusters(in_clusters_df'))
    /\ cell_sets_json' = [status |-> "returned", children |-> CellSetsChildren(in_clusters_df')]
    /\ UNCHANGED <<in_mtx, in_barcodes_df, in_bins_df, starting_resolution, store_vars,
                   bins_df, cluster_ids, chr_mtx, pc, chr_i, cluster_i, res_i, attr_i,
                   calls, err, prev_store, file_defs, pad>>

\* Line 750 when a label is no integer: int raises ValueError.
CreateCellSetsJsonError ==
    /\ pc \in {"idle", "done", "error"}
    /\ in_clusters_df' = ClustersAsStr(in_clusters_df)
    /\ ~AllInts(UniqueClusters(in_clusters_df'))
    /\ cell_sets_json' = [status |-> "ValueError", children |-> <<>>]
    /\ UNCHANGED <<in_mtx, in_barcodes_df, in_bins_df, starting_resolution, store_vars,
                   bins_df, cluster_ids, chr_mtx, pc, chr_i, cluster_i, res_i, attr_i,
                   calls, err, prev_store, file_defs, pad>>

(***************************************************************************)
(* File definitions: get_cells, get_cell_sets, get_genomic_profiles.        *)
(***************************************************************************)
\* The attributes of a SnapWrapper that _get_url reads: __init__ (lines
\* 483-495) assigns the inputs and tempdir, and does not call
\* AbstractWrapper.__init__, so the object has no _base_url.
SnapWrapperSelf == [has_base_url |-> FALSE, base_url |-> [none |-> TRUE, s |-> <<>>]]

HttpLocalhost ==
    <<"h", "t", "t", "p", ":", "/", "/", "l", "o", "c", "a", "l", "h", "o", "s", "t", ":">>

\* _get_url: reading self._base_url of an object without it raises
\* AttributeError.
GetUrl(self, port, dataset_uid, obj_i, suffix) ==
    IF ~self.has_base_url THEN [status |-> "AttributeError", url |-> <<>>]
    ELSE IF ~self.base_url.none
         THEN [status |-> "returned",
               url |-> self.base_url.s \o <<"/">> \o dataset_uid \o <<"/">> \o ToStr(obj_i)
                           \o <<"/">> \o suffix]
         ELSE [status |-> "returned",
               url |-> HttpLocalhost \o ToStr(port) \o <<"/">> \o dataset_uid \o <<"/">>
                           \o ToStr(obj_i) \o <<"/">> \o suffix]

\* The arguments the get_* methods are called with.
Ports == {8000}
DatasetUids == {<<"A">>}
ObjIndexes == {0, 1}

SuffixCells == <<"c", "e", "l", "l", "s">>
SuffixCellSets == <<"c", "e", "l", "l", "-", "s", "e", "t", "s">>
SuffixGenomic ==
    <<"g", "e", "n", "o", "m", "i", "c", "/", "p", "r", "o", "f", "i", "l", "e", "s", ".",
      "z", "a", "r", "r">>

\* How a get_* method ends once it asks for the URL of its file definition.
FileDefs(port, dataset_uid, obj_i, suffix) ==
    LET u == GetUrl(SnapWrapperSelf, port, dataset_uid, obj_i, suffix)
    IN  [status |-> u.status, url |-> u.url, port |-> port, dataset_uid |-> dataset_uid,
         obj_i |-> obj_i, suffix |-> suffix]

\* Lines 809-827, between two runs: the cells JSON and the route are made
\* (nothing of the wrapper changes), then the URL is asked for.
GetCells ==
    /\ pc \in {"idle", "done", "error"}
    /\ \E port \in Ports, dataset_uid \in DatasetUids, obj_i \in ObjIndexes :
          file_defs' = FileDefs(port, dataset_uid, obj_i, SuffixCells)
    /\ UNCHANGED <<wrapper_vars, store_vars, bins_df, cluster_ids, chr_mtx, pc, chr_i,
                   cluster_i, res_i, attr_i, calls, err, prev_store, cell_sets_json, pad>>

\* Lines 768-786, between two runs: _create_cell_sets_json, the route, then
\* the URL.
GetCellSets ==
    /\ pc \in {"idle", "done", "error"}
    /\ in_clusters_df' = ClustersAsStr(in_clusters_df)
    /\ AllInts(UniqueClusters(in_clusters_df'))
    /\ cell_sets_json' = [status |-> "returned", children |-> CellSetsChildren(in_clusters_df')]
    /\ \E port \in Ports, dataset_uid \in DatasetUids, obj_i \in ObjIndexes :
          file_defs' = FileDefs(port, dataset_uid, obj_i, SuffixCellSets)
    /\ UNCHANGED <<in_mtx, in_barcodes_df, in_bins_df, starting_resolution, store_vars,
                   bins_df, cluster_ids, chr_mtx, pc, chr_i, cluster_i, res_i, attr_i,
                   calls, err, prev_store, pad>>

\* Line 772 when a cluster label is no integer: ValueError from line 750.
GetCellSetsError ==
    /\ pc \in {"idle", "done", "error"}
    /\ in_clusters_df' = ClustersAsStr(in_clusters_df)
    /\ ~AllInts(UniqueClusters(in_clusters_df'))
    /\ cell_sets_json' = [status |-> "ValueError", children |-> <<>>]
    /\ \E port \in Ports, dataset_uid \in DatasetUids, obj_i \in ObjIndexes :
          file_defs' = [status |-> "ValueError", url |-> <<>>, port |-> port,
                        dataset_uid |-> dataset_uid, obj_i |-> obj_i, suffix |-> SuffixCellSets]
    /\ UNCHANGED <<in_mtx, in_barcodes_df, in_bins_df, starting_resolution, store_vars,
                   bins_df, cluster_ids, chr_mtx, pc, chr_i, cluster_i, res_i, attr_i,
                   calls, err, prev_store, pad>>

\* Lines 719-733: get_genomic_profiles after the run it started at line 717
\* has returned: the mount is made, then the URL is asked for.
GetGenomicProfiles ==
    /\ pc = "done"
    /\ file_defs = NoFileDefs
    /\ \E port \in Ports, dataset_uid \in DatasetUids, obj_i \in ObjIndexes :
          file_defs' = FileDefs(port, dataset_uid, obj_i, SuffixGenomic)
    /\ UNCHANGED <<wrapper_vars, store_vars, bins_df, cluster_ids, chr_mtx, pc, chr_i,
                   cluster_i, res_i, attr_i, calls, err, prev_store, cell_sets_json, pad>>

Next ==
    \/ ParseBins
    \/ OpenStore
    \/ ClusterIds
    \/ ClusterIdsError
    \/ CreateGroup
    \/ CreateDataset
    \/ SkipChromosome
    \/ Reconcile
    \/ WriteRow
    \/ WriteRowError
    \/ WriteAttr
    \/ CreateCellSetsJson
    \/ CreateCellSetsJsonError
    \/ GetCells
    \/ GetCellSets
    \/ GetCellSetsError
    \/ GetGenomicProfiles

Spec == Init /\ [][Next]_vars

(***************************************************************************)
(* What the claims are stated with.                                         *)
(***************************************************************************)
Completed == pc = "done"

\* n = ceil(a / b), stated without a division.
IsCeilOf(n, a, b) == n * b >= a /\ (n - 1) * b < a

\* The sequence has at least one retained bin: a bin of the local frame
\* (well-formed label) with the sequence's name.
HasData(chr_name) == \E p \in 1..Len(bins_df) : bins_df[p].chr_name.v = chr_name

\* The distinct labels of the cluster table.
ClusterLabels == {in_clusters_df[p].cluster.s : p \in 1..Len(in_clusters_df)}

\* The resolution of level k (k = 0..15) and the array stored for it.
LevelResolution(k) == starting_resolution * Pow2(k)
LevelPath(chr_name, k) == ArrayPath(chr_name, LevelResolution(k))
LevelArray(chr_name, k) == store_arrays[LevelPath(chr_name, k)]

Levels == 0..(NumLevels - 1)

\* An element of a row, zero past its end.
At(row, p) == IF p \in 1..Len(row) THEN row[p] ELSE 0

\* The labels of the synthetic index of a sequence.
SyntheticLabels(chr_name) ==
    LET gt == ChrBinsGt(chr_name, HgChromLength(chr_name), starting_resolution, NumCols(in_mtx))
    IN  {gt[k].label : k \in 1..Len(gt)}

(***************************************************************************)
(* C1. After a completed run, every array of a sequence with at least one   *)
(* retained bin exists at each of the 16 resolutions r = w * 2^k and has     *)
(* shape [number of clusters, ceil(sequence length / r)]. The shape holds    *)
(* of every dataset from its creation on, in every state of a run.           *)
(***************************************************************************)
C1_ShapeExact ==
    (pc \notin {"idle", "open", "clusters"}) =>
        \A c \in 1..num_chromosomes :
            \A k \in Levels :
                /\ (Completed /\ HasData(chromosomes[c])) =>
                      LevelPath(chromosomes[c], k) \in DOMAIN store_arrays
                /\ LevelPath(chromosomes[c], k) \in DOMAIN store_arrays =>
                      /\ Len(LevelArray(chromosomes[c], k)) = Cardinality(ClusterLabels)
                      /\ \A i \in 1..Len(LevelArray(chromosomes[c], k)) :
                            IsCeilOf(Len(LevelArray(chromosomes[c], k)[i]),
                                     HgChromLength(chromosomes[c]), LevelResolution(k))

\* A completed run with a sequence that has data, clusters, and a length
\* that the base width does not divide.
C1_Witness ==
    /\ Completed
    /\ Cardinality(ClusterLabels) = 2
    /\ \E c \in 1..num_chromosomes :
          /\ HasData(chromosomes[c])
          /\ HgChromLength(chromosomes[c]) % starting_resolution # 0

(***************************************************************************)
(* C3. Downsampling is consistent across levels: after a completed run, for *)
(* every sequence with data, every cluster row and every level k in 0..14,   *)
(* element j of level k+1 is the sum of elements 2j and 2j+1 (from 0) of     *)
(* level k, an element past the end of level k counting as zero; and level   *)
(* k has no element past those that level k+1 sums.                          *)
(***************************************************************************)
C3_DownsamplingConsistent ==
    Completed =>
        \A c \in 1..num_chromosomes :
            HasData(chromosomes[c]) =>
                \A k \in 0..(NumLevels - 2) :
                    LET lo == LevelArray(chromosomes[c], k)
                        hi == LevelArray(chromosomes[c], k + 1)
                    IN  \A i \in 1..Len(lo) :
                            /\ Len(lo[i]) <= 2 * Len(hi[i])
                            /\ \A t \in 1..Len(hi[i]) :
                                  hi[i][t] = At(lo[i], 2 * t - 1) + At(lo[i], 2 * t)

\* A completed run where a base row of odd length greater than one ends in
\* a positive count: its last element is summed with the zero padding.
C3_Witness ==
    /\ Completed
    /\ \E c \in 1..num_chromosomes :
          /\ HasData(chromosomes[c])
          /\ \E i \in 1..Len(LevelArray(chromosomes[c], 0)) :
                LET row == LevelArray(chromosomes[c], 0)[i]
                IN  Len(row) > 1 /\ Len(row) % 2 = 1 /\ row[Len(row)] > 0 /\ row[1] > 0

(***************************************************************************)
(* C4. A canonical sequence with no retained bin is no error: once the      *)
(* store is open, every element of every array of such a sequence is the     *)
(* uninitialized marker NaN (never zero) in every state of the run, and      *)
(* after the completed run all 16 arrays exist.                              *)
(***************************************************************************)
C4_EmptySequenceStaysNaN ==
    (pc \notin {"idle", "open"}) =>
        \A c \in 1..num_chromosomes :
            ~HasData(chromosomes[c]) =>
                \A k \in Levels :
                    /\ Completed => LevelPath(chromosomes[c], k) \in DOMAIN store_arrays
                    /\ LevelPath(chromosomes[c], k) \in DOMAIN store_arrays =>
                          \A i \in 1..Len(LevelArray(chromosomes[c], k)) :
                              \A j \in 1..Len(LevelArray(chromosomes[c], k)[i]) :
                                  LevelArray(chromosomes[c], k)[i][j] = NaN

\* A completed first run with clusters, one sequence with data and one
\* without.
C4_Witness ==
    /\ Completed
    /\ calls = 1
    /\ num_clusters = 2
    /\ \E c \in 1..num_chromosomes : HasData(chromosomes[c])
    /\ \E c \in 1..num_chromosomes :
          /\ ~HasData(chromosomes[c])
          /\ Len(LevelArray(chromosomes[c], 0)) = 2
          /\ Len(LevelArray(chromosomes[c], 0)[1]) > 0

(***************************************************************************)
(* C5. After a completed run no element of any array of a sequence with     *)
(* data, at any resolution and for any cluster row, is the uninitialized     *)
(* marker: a synthetic slot with no observed bin is zero-filled.             *)
(***************************************************************************)
C5_DataSequenceHasNoNaN ==
    Completed =>
        \A c \in 1..num_chromosomes :
            HasData(chromosomes[c]) =>
                \A k \in Levels :
                    \A i \in 1..Len(LevelArray(chromosomes[c], k)) :
                        \A j \in 1..Len(LevelArray(chromosomes[c], k)[i]) :
                            LevelArray(chromosomes[c], k)[i][j] # NaN

\* A completed run with clusters and a sequence with data, one of whose
\* synthetic slots has no observed bin.
C5_Witness ==
    /\ Completed
    /\ num_clusters = 2
    /\ \E c \in 1..num_chromosomes :
          /\ HasData(chromosomes[c])
          /\ \E l \in SyntheticLabels(chromosomes[c]) :
                \A p \in 1..Len(bins_df) : bins_df[p].label # l
          /\ \E l \in SyntheticLabels(chromosomes[c]) :
                \E p \in 1..Len(bins_df) : bins_df[p].label = l

(***************************************************************************)
(* C6. The end-to-end example: chr1 of length 10, base resolution 4,        *)
(* clusters {A, B} and {C}, chr1:1-4 with A=1, B=2, C=0, chr1:5-8 absent,    *)
(* chr1:9-12 with A=0, B=0, C=3. After the first run the base array is       *)
(* [[3, 0, 0], [0, 0, 3]] and the array at resolution 8 is [[3, 0], [0, 3]]. *)
(***************************************************************************)
IsExampleRun ==
    /\ calls = 1
    /\ starting_resolution = 4
    /\ in_mtx = << <<1, 0>>, <<2, 0>>, <<0, 3>> >>
    /\ in_barcodes_df = <<"A", "B", "C">>
    /\ in_bins_df = << <<"c", "h", "r", "1", ":", "1", "-", "4">>,
                       <<"c", "h", "r", "1", ":", "9", "-", "1", "2">> >>
    /\ HgChromLength(<<"c", "h", "r", "1">>) = 10

C6_EndToEndExample ==
    (Completed /\ IsExampleRun) =>
        /\ store_arrays[<<ChromosomesName, <<"c", "h", "r", "1">>, <<"4">> >>]
              = << <<3, 0, 0>>, <<0, 0, 3>> >>
        /\ store_arrays[<<ChromosomesName, <<"c", "h", "r", "1">>, <<"8">> >>]
              = << <<3, 0>>, <<0, 3>> >>

C6_Witness ==
    /\ Completed
    /\ IsExampleRun
    /\ in_clusters_df = <<Row("A", StrVal(<<"1">>)), Row("B", StrVal(<<"1">>)),
                          Row("C", StrVal(<<"2">>))>>

(***************************************************************************)
(* More of what the claims are stated with.                                 *)
(***************************************************************************)
\* The rows of the local bins frame of one sequence: its retained bins.
RetainedBins(chr_name) == ChrBinsIn(bins_df, chr_name)

\* The label is one of the synthetic index of the sequence.
OnGrid(chr_name, bin) == bin.label \in SyntheticLabels(chr_name)

\* The slot (from 1) of an on-grid bin in the synthetic index.
SlotOf(bin) == ((bin.chr_start.v - 1) \div starting_resolution) + 1

\* The sum of one matrix column (from 0) over the given rows.
ColumnSum(col, rows) ==
    SumSeq(SelectIdx([r \in 1..Len(in_mtx) |-> in_mtx[r][col + 1]],
                     [r \in 1..Len(in_mtx) |-> r \in rows], 1))

AllRows == 1..Len(in_mtx)

\* The cells of a cluster label, and the matrix rows of those cells.
CellsOf(label) ==
    {in_clusters_df[p].cell : p \in {q \in 1..Len(in_clusters_df) : in_clusters_df[q].cluster.s = label}}
RowsOf(label) == {r \in 1..Len(in_barcodes_df) : in_barcodes_df[r] \in CellsOf(label)}

\* Every barcode is a cell of exactly one cluster.
EveryCellInOneCluster ==
    \A r \in 1..Len(in_barcodes_df) :
        Cardinality({l \in ClusterLabels : in_barcodes_df[r] \in CellsOf(l)}) = 1

\* The cluster labels of the root attribute row_infos, in row order.
RowInfoLabels ==
    [i \in 1..Len(store_attrs["row_infos"]) |-> store_attrs["row_infos"][i].cluster]

\* The sum of all elements of an array.
ArrayTotal(arr) == SumSeq([i \in 1..Len(arr) |-> SumSeq(arr[i])])

\* No retained bin of another canonical sequence lies between two retained
\* bins of this one (the bins of a sequence are contiguous in the input,
\* but for labels that are malformed or outside the canonical set).
Contiguous(chr_name) ==
    \A p \in 1..Len(bins_df) :
        (/\ bins_df[p].chr_name.v # chr_name
         /\ bins_df[p].chr_name.v \in chromosomes_set)
        => \/ \A q \in 1..Len(RetainedBins(chr_name)) : RetainedBins(chr_name)[q].idx < bins_df[p].idx
           \/ \A q \in 1..Len(RetainedBins(chr_name)) : RetainedBins(chr_name)[q].idx > bins_df[p].idx

(***************************************************************************)
(* C2. Conservation of total signal: after a completed run, for every       *)
(* sequence with data, the sum of its base-resolution array over all        *)
(* clusters and bins equals the sum of the matrix counts over all cells and  *)
(* over the retained bins of that sequence. Stated for inputs where every    *)
(* cell is in exactly one cluster and every retained bin of the sequence     *)
(* has a label of the synthetic index (C25 covers the others).               *)
(***************************************************************************)
C2_Conservation ==
    (Completed /\ EveryCellInOneCluster) =>
        \A c \in 1..num_chromosomes :
            LET bins == RetainedBins(chromosomes[c])
            IN  (Len(bins) > 0 /\ \A q \in 1..Len(bins) : OnGrid(chromosomes[c], bins[q])) =>
                    ArrayTotal(LevelArray(chromosomes[c], 0))
                        = SumSeq([q \in 1..Len(bins) |-> ColumnSum(bins[q].idx, AllRows)])

(***************************************************************************)
(* C7. Each retained bin's column of counts is placed in the synthetic slot *)
(* of the bin's own label: after a completed run, for every retained bin at  *)
(* column position p whose label is a slot of its sequence, the base value   *)
(* of each cluster at that slot is the sum of column p over the cluster's    *)
(* cells, also when a malformed or out-of-set label lies between two         *)
(* retained bins of the sequence. Stated for bin lists in which no retained  *)
(* bin of another canonical sequence lies between them.                      *)
(***************************************************************************)
C7_LabelKeyedPlacement ==
    Completed =>
        \A c \in 1..num_chromosomes :
            LET bins == RetainedBins(chromosomes[c])
            IN  Contiguous(chromosomes[c]) =>
                    \A q \in 1..Len(bins) :
                        OnGrid(chromosomes[c], bins[q]) =>
                            \A i \in 1..Len(RowInfoLabels) :
                                LevelArray(chromosomes[c], 0)[i][SlotOf(bins[q])]
                                    = ColumnSum(bins[q].idx, RowsOf(RowInfoLabels[i]))

(***************************************************************************)
(* C8. Idempotence: a second call of create_genomic_multivec_zarr on the    *)
(* same SnapWrapper object leaves the store with the same arrays and the     *)
(* same root attributes as the first call.                                   *)
(***************************************************************************)
C8_SecondCallSameStore ==
    (Completed /\ prev_store.completed) =>
        /\ store_arrays = prev_store.arrays
        /\ store_attrs = prev_store.attrs

(***************************************************************************)
(* C10. A malformed bin label never aborts the run and the counts of its    *)
(* matrix column contribute to no element of any output array: after a       *)
(* completed run on a matrix whose only counts are in columns of malformed   *)
(* labels, every element of every array is zero or uninitialized.            *)
(***************************************************************************)
C10_MalformedColumnContributesNothing ==
    (/\ Completed
     /\ \A p \in 1..Len(bins_df) : ColumnSum(bins_df[p].idx, AllRows) = 0)
    => \A path \in DOMAIN store_arrays :
           \A i \in 1..Len(store_arrays[path]) :
               \A j \in 1..Len(store_arrays[path][i]) :
                   store_arrays[path][i][j] \in {0, NaN}

(***************************************************************************)
(* C9. Row i of every stored array holds the profile of the i-th cluster    *)
(* label of row_infos, row_infos lists the distinct cluster labels in        *)
(* ascending integer value, and the same cluster table with its rows in      *)
(* another order gives the same row_infos (and so, rows being decided by     *)
(* their label's set of cells, the same arrays).                             *)
(***************************************************************************)
\* The permutations of 1..n.
Perms(n) == {f \in [1..n -> 1..n] : \A a, b \in 1..n : f[a] = f[b] => a = b}

\* The cluster table with its rows in the order perm.
Reordered(perm) == [p \in 1..Len(in_clusters_df) |-> in_clusters_df[perm[p]]]

\* row_infos holds each cluster label once.
RowInfosListLabels ==
    /\ Len(RowInfoLabels) = Cardinality(ClusterLabels)
    /\ {RowInfoLabels[i] : i \in 1..Len(RowInfoLabels)} = ClusterLabels

\* Row i of each base array is the sum, over the matrix rows of the cells of
\* the i-th label, of the sequence's reconciled columns.
RowsHoldTheirLabelsProfile ==
    \A c \in 1..num_chromosomes :
        HasData(chromosomes[c]) =>
            LET rec == ReconciledMtx(in_mtx, bins_df, chromosomes[c], starting_resolution)
                base == LevelArray(chromosomes[c], 0)
            IN  /\ Len(base) = Len(RowInfoLabels)
                /\ \A i \in 1..Len(base) :
                      /\ Len(base[i]) = rec.ncols
                      /\ \A j \in 1..rec.ncols :
                            base[i][j] =
                                SumSeq(SelectIdx([r \in 1..Len(rec.rows) |-> rec.rows[r][j]],
                                                 [r \in 1..Len(rec.rows) |->
                                                     r \in RowsOf(RowInfoLabels[i])], 1))

\* The table in any other row order gives the same label list.
RowOrderIsImmaterial ==
    \A perm \in Perms(Len(in_clusters_df)) :
        SortByInt(UniqueClusters(Reordered(perm))) = RowInfoLabels

NoEqualIntegerLabels ==
    \A l1, l2 \in ClusterLabels : PyInt(l1).v = PyInt(l2).v => l1 = l2

WriteFailed == pc = "error" /\ chr_i >= 1

C11_WriteFailureLeavesNoPartialStore ==
    WriteFailed =>
        /\ \A c \in (chr_i + 1)..num_chromosomes :
              GroupPath(chromosomes[c]) \notin store_groups
        /\ store_attrs = <<>>
        /\ \/ store_groups = {} /\ store_arrays = <<>>
           \/ /\ prev_store.completed
              /\ store_groups = prev_store.groups
              /\ store_arrays = prev_store.arrays
              /\ store_attrs = prev_store.attrs

(***************************************************************************)
(* C13. The cumulative offset written for each sequence is the sum of the   *)
(* lengths of the sequences before it in the canonical order: the first      *)
(* offset is 0, the offsets are strictly increasing, and the offset of the   *)
(* next sequence minus the offset of a sequence is that sequence's length.   *)
(***************************************************************************)
\* The per-sequence descriptors of the root attribute multiscales.
Descriptors == store_attrs["multiscales"]

C13_CumulativeOffsets ==
    ("multiscales" \in DOMAIN store_attrs) =>
        /\ Len(Descriptors) > 0
        /\ Descriptors[1].metadata.chromoffset = 0
        /\ \A c \in 1..Len(Descriptors) :
              /\ Descriptors[c].name = HgChromOrder[c]
              /\ Descriptors[c].metadata.chromsize = HgChromLength(HgChromOrder[c])
              /\ Descriptors[c].metadata.chromoffset
                    = SumSeq([q \in 1..(c - 1) |-> HgChromLength(HgChromOrder[q])])
        /\ \A c \in 1..(Len(Descriptors) - 1) :
              /\ Descriptors[c + 1].metadata.chromoffset > Descriptors[c].metadata.chromoffset
              /\ Descriptors[c + 1].metadata.chromoffset - Descriptors[c].metadata.chromoffset
                    = Descriptors[c].metadata.chromsize

\* A completed run whose descriptors include a sequence after the first, at
\* a positive offset.
C13_Witness ==
    /\ Completed
    /\ Len(Descriptors) >= 2
    /\ Descriptors[2].metadata.chromoffset = HgChromLength(HgChromOrder[1])
    /\ Descriptors[2].metadata.chromoffset > 0

(***************************************************************************)
(* C14. The sequence set and the per-sequence descriptors do not depend on  *)
(* the input data: whatever the bin list, the count matrix and the cell      *)
(* list, a run writes one descriptor per sequence of the capped reference    *)
(* table, in the table's order, with the table's names, offsets and lengths  *)
(* and the path list of the base width; and a second run, whose bin list     *)
(* differs from the first run's, writes the same descriptors.                *)
(***************************************************************************)
\* The descriptors as the reference table and the base width alone give them.
ReferenceDescriptors(w) ==
    [c \in 1..Min(ChromCap, Len(HgChromOrder)) |->
        [version |-> "0.1",
         name |-> HgChromOrder[c],
         datasets |-> [x \in 1..NumLevels |->
                          [path |-> ChromosomesName \o <<"/">> \o HgChromOrder[c] \o <<"/">>
                                        \o ToStr(w * Pow2(NumLevels - x))]],
         type |-> "zarr-multivec",
         metadata |-> [chromoffset |-> SumSeq([q \in 1..(c - 1) |-> HgChromLength(HgChromOrder[q])]),
                       chromsize |-> HgChromLength(HgChromOrder[c])]]]

C14_DescriptorsIndependentOfData ==
    /\ ("multiscales" \in DOMAIN store_attrs) =>
          Descriptors = ReferenceDescriptors(starting_resolution)
    /\ (Completed /\ prev_store.completed) =>
          Descriptors = prev_store.attrs["multiscales"]

\* A second completed run whose arrays differ from the first run's, with a
\* descriptor for a sequence that has no data.
C14_Witness ==
    /\ Completed
    /\ prev_store.completed
    /\ store_arrays # prev_store.arrays
    /\ Len(Descriptors) = ChromCap
    /\ \E c \in 1..Len(Descriptors) : ~HasData(Descriptors[c].name)

(***************************************************************************)
(* C15. After a completed run the root attribute resolutions lists all 16   *)
(* resolutions in strictly descending order, every per-sequence descriptor   *)
(* lists its 16 resolution paths in that same order, and every path named    *)
(* in a descriptor is the path of an array that exists in the store.         *)
(***************************************************************************)
\* The names of a path string, split at each '/'.
RECURSIVE SplitPath(_)
SplitPath(s) ==
    IF IndexOf(s, "/") = 0 THEN <<s>>
    ELSE <<SubSeq(s, 1, IndexOf(s, "/") - 1)>> \o SplitPath(SubSeq(s, IndexOf(s, "/") + 1, Len(s)))

C15_ResolutionsAndPaths ==
    Completed =>
        LET rs == store_attrs["resolutions"]
        IN  /\ Len(rs) = NumLevels
            /\ {rs[x] : x \in 1..Len(rs)} = {LevelResolution(k) : k \in Levels}
            /\ \A x \in 1..(Len(rs) - 1) : rs[x] > rs[x + 1]
            /\ \A c \in 1..Len(Descriptors) :
                  /\ Len(Descriptors[c].datasets) = NumLevels
                  /\ \A x \in 1..NumLevels :
                        LET names == SplitPath(Descriptors[c].datasets[x].path)
                        IN  /\ names = <<ChromosomesName, Descriptors[c].name, ToStr(rs[x])>>
                            /\ names \in DOMAIN store_arrays

\* A completed run with a sequence that has data and one that has none: the
\* paths of both are named.
C15_Witness ==
    /\ Completed
    /\ store_attrs["resolutions"][1] = starting_resolution * Pow2(NumLevels - 1)
    /\ \E c \in 1..Len(Descriptors) : HasData(Descriptors[c].name)
    /\ \E c \in 1..Len(Descriptors) : ~HasData(Descriptors[c].name)

(***************************************************************************)
(* C16. The reconciled bin sequence of every sequence with data is complete *)
(* and gap-free: once a sequence is reconciled, its joined bins are exactly  *)
(* ceil(sequence length / base width) slots, one per synthetic label, with   *)
(* pairwise distinct labels in ascending start order, and the reconciled     *)
(* matrix has one column per slot, for every list of retained labels,        *)
(* lists that repeat a label included.                                       *)
(***************************************************************************)
\* The rows of chr_bins_in_join_df: each ground-truth row once per input row
\* of its label, or once when no input row has it.
JoinedBins(chr_name) ==
    LET chr_bins == ChrBinsIn(bins_df, chr_name)
        gt == ChrBinsGt(chr_name, chrom_name_to_length(chr_name), starting_resolution,
                        NumCols(in_mtx))
    IN  Flatten([k \in 1..Len(gt) |-> [h \in 1..Len(JoinRowI(chr_bins, gt[k])) |-> gt[k]]])

C16_ReconciledSequenceGapFree ==
    (pc = "fill") =>
        LET joined == JoinedBins(CurChrName)
        IN  /\ IsCeilOf(Len(joined), HgChromLength(CurChrName), starting_resolution)
            /\ {joined[j].label : j \in 1..Len(joined)} = SyntheticLabels(CurChrName)
            /\ \A j \in 1..(Len(joined) - 1) : joined[j].chr_start < joined[j + 1].chr_start
            /\ \A j1, j2 \in 1..Len(joined) : joined[j1].label = joined[j2].label => j1 = j2
            /\ chr_mtx.ncols = Len(joined)
            /\ \A r \in 1..Len(chr_mtx.rows) : Len(chr_mtx.rows[r]) = Len(joined)

(***************************************************************************)
(* C17. Every cell belongs to exactly one cluster: after a completed run    *)
(* each matrix row is selected for exactly one cluster row, so that the      *)
(* cluster rows of each base array add up to the sum of all matrix rows;     *)
(* and the cluster sets that _create_cell_sets_json returns are pairwise     *)
(* disjoint, their union being the cell identifiers of the cluster table.    *)
(***************************************************************************)
\* The cluster rows that matrix row r is summed into.
ClusterRowsOf(r) ==
    {i \in 1..Len(RowInfoLabels) :
        ClusterCellsTf(in_barcodes_df, in_clusters_df, RowInfoLabels[i])[r]}

EachRowSummedOnce ==
    /\ \A r \in 1..Len(in_mtx) : Cardinality(ClusterRowsOf(r)) = 1
    /\ \A c \in 1..num_chromosomes :
          HasData(chromosomes[c]) =>
              LET rec == ReconciledMtx(in_mtx, bins_df, chromosomes[c], starting_resolution)
                  base == LevelArray(chromosomes[c], 0)
              IN  \A j \in 1..rec.ncols :
                      SumSeq([i \in 1..Len(base) |-> base[i][j]])
                          = SumSeq([r \in 1..Len(rec.rows) |-> rec.rows[r][j]])

\* The cells of one returned cluster set.
CellSet(c) ==
    {cell_sets_json.children[c].set[p] : p \in 1..Len(cell_sets_json.children[c].set)}

CellSetsPartition ==
    /\ \A c1, c2 \in 1..Len(cell_sets_json.children) :
          c1 # c2 => CellSet(c1) \cap CellSet(c2) = {}
    /\ UNION {CellSet(c) : c \in 1..Len(cell_sets_json.children)}
          = {in_clusters_df[p].cell : p \in 1..Len(in_clusters_df)}

\* The claim as stated: for every cluster table.
C17_OneClusterPerCellOriginal ==
    /\ Completed => EachRowSummedOnce
    /\ cell_sets_json.status = "returned" => CellSetsPartition

\* The table lists no cell identifier under two cluster labels.
NoCellUnderTwoLabels ==
    \A p, q \in 1..Len(in_clusters_df) :
        in_clusters_df[p].cell = in_clusters_df[q].cell
            => AsTypeStr(in_clusters_df[p].cluster) = AsTypeStr(in_clusters_df[q].cluster)

\* C17 as amended: the aggregation half holds when the table lists every
\* barcode of the matrix under exactly one cluster label, the cell-sets half
\* when it lists no cell identifier under two labels.
C17_OneClusterPerCell ==
    /\ (Completed /\ EveryCellInOneCluster) => EachRowSummedOnce
    /\ (cell_sets_json.status = "returned" /\ NoCellUnderTwoLabels) => CellSetsPartition

\* A completed run with data and two clusters on a table that lists every
\* barcode once, after which the cell sets were returned.
C17_Witness ==
    /\ Completed
    /\ EveryCellInOneCluster
    /\ NoCellUnderTwoLabels
    /\ Len(RowInfoLabels) = 2
    /\ cell_sets_json.status = "returned"
    /\ Len(cell_sets_json.children) = 2
    /\ \E c \in 1..num_chromosomes : HasData(chromosomes[c])

(***************************************************************************)
(* C18. Aggregation has no error condition: a cluster none of whose cells   *)
(* is a barcode of the matrix gets an all-zero profile, its row is all zero  *)
(* at every resolution of every sequence with data after the completed run,  *)
(* and a run that ends in an exception at a row write does so because the    *)
(* reconciled sequence is longer than the dataset, never because of the      *)
(* aggregation.                                                              *)
(***************************************************************************)
\* The cluster label has no cell among the barcodes.
NoMemberRows(label) == RowsOf(label) = {}

C18_EmptyClusterAllZero ==
    /\ (pc = "fill" /\ NoMemberRows(cluster_ids[cluster_i])) =>
          CurProfile = [j \in 1..chr_mtx.ncols |-> 0]
    /\ Completed =>
          \A i \in 1..Len(RowInfoLabels) :
              NoMemberRows(RowInfoLabels[i]) =>
                  \A c \in 1..num_chromosomes :
                      HasData(chromosomes[c]) =>
                          \A k \in Levels :
                              \A j \in 1..Len(LevelArray(chromosomes[c], k)[i]) :
                                  LevelArray(chromosomes[c], k)[i][j] = 0
    /\ WriteFailed =>
          chr_mtx.ncols > Cardinality(SyntheticLabels(CurChrName))

\* A completed run with data in which one cluster has no cell among the
\* barcodes and another has positive counts.
C18_Witness ==
    /\ Completed
    /\ \E i \in 1..Len(RowInfoLabels) : NoMemberRows(RowInfoLabels[i])
    /\ \E c \in 1..num_chromosomes :
          /\ HasData(chromosomes[c])
          /\ \E i \in 1..Len(RowInfoLabels) : LevelArray(chromosomes[c], 0)[i][1] > 0

(***************************************************************************)
(* C19. Root attributes are written only after all sequences have been      *)
(* processed: in every state of a run in which the store holds a root        *)
(* attribute, the run is past the chromosome loop, and every row of every    *)
(* array of every sequence with data has been written (it exists, has one    *)
(* row per cluster, and holds no uninitialized element).                     *)
(***************************************************************************)
\* Every row of every array of the sequence has been written.
AllRowsWritten(chr_name) ==
    \A k \in Levels :
        /\ LevelPath(chr_name, k) \in DOMAIN store_arrays
        /\ Len(LevelArray(chr_name, k)) = num_clusters
        /\ \A i \in 1..Len(LevelArray(chr_name, k)) :
              \A j \in 1..Len(LevelArray(chr_name, k)[i]) :
                  LevelArray(chr_name, k)[i][j] # NaN

\* The store still holds what the call before left: the new call has not
\* opened it yet.
StoreOfEarlierCall == pc = "open"

C19_AttributesAfterAllSequences ==
    (store_attrs # <<>> /\ ~StoreOfEarlierCall) =>
        /\ pc \in {"attrs", "done"}
        /\ chr_i = num_chromosomes + 1
        /\ \A c \in 1..num_chromosomes :
              HasData(chromosomes[c]) => AllRowsWritten(chromosomes[c])

\* The first root attribute alone is present, in a run with two clusters
\* and data for the last canonical sequence.
C19_Witness ==
    /\ pc = "attrs"
    /\ DOMAIN store_attrs = {"row_infos"}
    /\ num_clusters = 2
    /\ HasData(chromosomes[num_chromosomes])

(***************************************************************************)
(* C20. Sequences are processed to completion one at a time in canonical    *)
(* order: in every state of a run, a sequence after the one the loop is at   *)
(* has no group and no array, a sequence before it has all 16 arrays and,    *)
(* if it has data, every row written, and the sequence the loop is at has    *)
(* a row written only if all its 16 arrays exist.                            *)
(***************************************************************************)
\* The levels of the sequence whose array exists.
ArraysOf(chr_name) == {k \in Levels : LevelPath(chr_name, k) \in DOMAIN store_arrays}

\* Some row of some array of the sequence has been written.
SomeRowWritten(chr_name) ==
    \E k \in ArraysOf(chr_name) :
        \E i \in 1..Len(LevelArray(chr_name, k)) :
            \E j \in 1..Len(LevelArray(chr_name, k)[i]) :
                LevelArray(chr_name, k)[i][j] # NaN

C20_OneSequenceAtATime ==
    (pc \notin {"idle", "open"}) =>
        \A c \in 1..num_chromosomes :
            /\ c > chr_i =>
                  /\ GroupPath(chromosomes[c]) \notin store_groups
                  /\ ArraysOf(chromosomes[c]) = {}
            /\ c < chr_i =>
                  /\ ArraysOf(chromosomes[c]) = Levels
                  /\ HasData(chromosomes[c]) => AllRowsWritten(chromosomes[c])
            /\ c = chr_i =>
                  /\ SomeRowWritten(chromosomes[c]) => ArraysOf(chromosomes[c]) = Levels
                  /\ pc = "create" =>
                        ArraysOf(chromosomes[c]) = {k \in Levels : k < res_i - 1}

\* The loop is writing the rows of the second sequence, after it wrote the
\* rows of the first.
C20_Witness ==
    /\ pc = "fill"
    /\ chr_i = 2
    /\ cluster_i = 2
    /\ HasData(chromosomes[1])
    /\ SomeRowWritten(chromosomes[1])
    /\ SomeRowWritten(chromosomes[2])

(***************************************************************************)
(* C21. The store is created fresh for each run: once a run has opened the  *)
(* output path, the path holds only the root and the chromosomes group, and  *)
(* from then on only what this run wrote, so that after a completed run the  *)
(* groups, arrays and attributes are exactly those of this run's inputs,     *)
(* also when the same wrapper converts a second time to the same path.       *)
(***************************************************************************)
\* Every element of the array is the fill value.
AllNaN(arr) == \A i \in 1..Len(arr) : \A j \in 1..Len(arr[i]) : arr[i][j] = NaN

C21_StoreFreshPerRun ==
    /\ pc = "clusters" =>
          /\ store_groups = {<<>>, <<ChromosomesName>>}
          /\ store_arrays = <<>>
          /\ store_attrs = <<>>
    /\ (pc \notin {"idle", "open"}) =>
          \A path \in DOMAIN store_arrays :
              (\A p \in 1..Len(bins_df) : bins_df[p].chr_name.v # path[2]) =>
                  AllNaN(store_arrays[path])
    /\ Completed =>
          /\ store_groups = {<<>>, <<ChromosomesName>>}
                               \cup {GroupPath(chromosomes[c]) : c \in 1..num_chromosomes}
          /\ DOMAIN store_arrays
                = {LevelPath(chromosomes[c], k) : c \in 1..num_chromosomes, k \in Levels}
          /\ DOMAIN store_attrs = {AttrNames[a] : a \in 1..Len(AttrNames)}
          /\ RowInfoLabels = cluster_ids
          /\ RowsHoldTheirLabelsProfile

\* A second completed run to the same path, after a first one that wrote
\* counts: the path now holds this run's arrays, not those.
C21_Witness ==
    /\ Completed
    /\ calls = 2
    /\ prev_store.completed
    /\ \E path \in DOMAIN prev_store.arrays : ~AllNaN(prev_store.arrays[path])
    /\ \A path \in DOMAIN store_arrays : AllNaN(store_arrays[path])
    /\ num_clusters = 2

(***************************************************************************)
(* C22. The run treats its inputs as immutable: no step of                  *)
(* create_genomic_multivec_zarr changes the count matrix, the barcode list,  *)
(* the bin label list or the cluster table that the wrapper holds, so that   *)
(* they are after the call what they were before it.                         *)
(***************************************************************************)
C22_InputsUnchanged ==
    [][(pc' \notin {"idle", "done", "error"} \/ pc \notin {"idle", "done", "error"}) =>
          /\ in_mtx' = in_mtx
          /\ in_barcodes_df' = in_barcodes_df
          /\ in_bins_df' = in_bins_df
          /\ in_clusters_df' = in_clusters_df]_vars

(***************************************************************************)
(* C23. Processing one sequence writes only that sequence's arrays: every   *)
(* step taken while the loop is at a sequence leaves the arrays of every     *)
(* other sequence as they are, creates no array of another sequence, and     *)
(* leaves the root attributes unchanged.                                     *)
(***************************************************************************)
\* The loop is at a sequence.
HandlingSequence == pc \in {"group", "create", "reconcile", "fill"}

C23_OnlyOwnArrays ==
    [][HandlingSequence =>
          /\ store_attrs' = store_attrs
          /\ \A path \in DOMAIN store_arrays :
                path[2] # CurChrName =>
                    /\ path \in DOMAIN store_arrays'
                    /\ store_arrays'[path] = store_arrays[path]
          /\ \A path \in DOMAIN store_arrays' :
                path \notin DOMAIN store_arrays => path[2] = CurChrName]_vars

\* The rows of the second sequence are being written at the last level,
\* the arrays of the first holding its counts.
C23_Witness ==
    /\ pc = "fill"
    /\ chr_i = 2
    /\ res_i = NumLevels
    /\ HasData(chromosomes[1])
    /\ ~AllNaN(LevelArray(chromosomes[1], 0))
    /\ ~AllNaN(LevelArray(chromosomes[2], 0))

(***************************************************************************)
(* C24. Cell-row order does not affect the result: after a completed run,   *)
(* every array of every sequence with data, at every resolution, is the      *)
(* array that the same bins and clusters give for the count matrix and the   *)
(* barcode list with their rows in any other order (the same order for       *)
(* both).                                                                    *)
(***************************************************************************)
\* The array of a sequence at level k for a matrix and its barcode list.
ArrayFor(mtx, barcodes, chr_name, k) ==
    LET rec == ReconciledMtx(mtx, bins_df, chr_name, starting_resolution)
    IN  [i \in 1..Len(cluster_ids) |->
            LevelArr(ClusterProfile(rec.rows, rec.ncols,
                                    ClusterCellsTf(barcodes, in_clusters_df, cluster_ids[i])),
                     resolution_exps[k + 1],
                     Ceil(chrom_name_to_length(chr_name), LevelResolution(k)))]

C24_CellRowOrderImmaterial ==
    Completed =>
        \A perm \in Perms(Len(in_mtx)) :
            LET mtx == [r \in 1..Len(in_mtx) |-> in_mtx[perm[r]]]
                barcodes == [r \in 1..Len(in_barcodes_df) |-> in_barcodes_df[perm[r]]]
            IN  \A c \in 1..num_chromosomes :
                    HasData(chromosomes[c]) =>
                        \A k \in Levels :
                            LevelArray(chromosomes[c], k) = ArrayFor(mtx, barcodes, chromosomes[c], k)

\* A completed run with data whose matrix rows differ from each other and
\* whose two clusters have different profiles.
C24_Witness ==
    /\ Completed
    /\ Len(in_mtx) = 3
    /\ in_mtx[1] # in_mtx[2] /\ in_mtx[2] # in_mtx[3] /\ in_mtx[1] # in_mtx[3]
    /\ num_clusters = 2
    /\ \E c \in 1..num_chromosomes :
          /\ HasData(chromosomes[c])
          /\ LevelArray(chromosomes[c], 0)[1] # LevelArray(chromosomes[c], 0)[2]
          /\ ~AllNaN(LevelArray(chromosomes[c], NumLevels - 1))

(***************************************************************************)
(* C25. A retained bin whose label is no slot label of its sequence raises  *)
(* no error and contributes to no element of any output array: a run ends    *)
(* in the exception of a row write only when two retained bins have the      *)
(* same label, and after a completed run on a matrix whose only counts are   *)
(* in the columns of such off-grid bins, every element of every array is     *)
(* zero or uninitialized.                                                    *)
(***************************************************************************)
\* The retained bin is of a canonical sequence and off its synthetic index.
OffGrid(bin) == bin.chr_name.v \in chromosomes_set /\ ~OnGrid(bin.chr_name.v, bin)

\* Every matrix column that holds a count is the column of an off-grid bin.
CountsOnlyInOffGridColumns ==
    \A col \in 0..(NumCols(in_mtx) - 1) :
        ColumnSum(col, AllRows) # 0 =>
            \E p \in 1..Len(bins_df) : bins_df[p].idx = col /\ OffGrid(bins_df[p])

C25_OffGridBinContributesNothing ==
    /\ WriteFailed =>
          \E p, q \in 1..Len(bins_df) : p # q /\ bins_df[p].label = bins_df[q].label
    /\ (Completed /\ CountsOnlyInOffGridColumns) =>
          \A path \in DOMAIN store_arrays :
              \A i \in 1..Len(store_arrays[path]) :
                  \A j \in 1..Len(store_arrays[path][i]) :
                      store_arrays[path][i][j] \in {0, NaN}

(***************************************************************************)
(* C26. A cluster label that is not an integer string aborts the run with   *)
(* an error before any array is created and before any root attribute is     *)
(* written: once the store is open and the labels were looked at, the run    *)
(* has ended in ValueError, and the store, already opened for writing,       *)
(* holds only the root and the empty chromosomes group.                      *)
(***************************************************************************)
\* Some label of the cluster table, as a string, is no integer.
NonIntegerLabel ==
    \E p \in 1..Len(in_clusters_df) : ~PyInt(AsTypeStr(in_clusters_df[p].cluster).s).ok

C26_NonIntegerLabelAborts ==
    (NonIntegerLabel /\ pc \notin {"idle", "open", "clusters"}) =>
        /\ pc = "error"
        /\ err = "ValueError"
        /\ chr_i = 0
        /\ store_groups = {<<>>, <<ChromosomesName>>}
        /\ store_arrays = <<>>
        /\ store_attrs = <<>>

\* The run of a wrapper with the label "x" has ended in the error, its bins
\* having data for a sequence.
C26_Witness ==
    /\ NonIntegerLabel
    /\ pc = "error"
    /\ calls = 1
    /\ <<"x">> \in ClusterLabels
    /\ \E c \in 1..num_chromosomes : HasData(chromosomes[c])

(***************************************************************************)
(* C27. On a constructed SnapWrapper, get_cells, get_cell_sets and          *)
(* get_genomic_profiles each return a file definition whose URL is what      *)
(* _get_url gives: http://localhost:port/dataset_uid/obj_i/suffix, no        *)
(* base_url having been given, without raising. Stated for cluster tables    *)
(* whose labels are integers.                                                *)
(***************************************************************************)
C27_FileDefinitionUrl ==
    (file_defs.status # "none" /\ ~NonIntegerLabel) =>
        /\ file_defs.status = "returned"
        /\ file_defs.url =
              HttpLocalhost \o ToStr(file_defs.port) \o <<"/">> \o file_defs.dataset_uid
                  \o <<"/">> \o ToStr(file_defs.obj_i) \o <<"/">> \o file_defs.suffix


(***************************************************************************)
(* The padding of one vector, level by level: a base vector of              *)
(* ceil(n / w) values for a sequence of length n and a base width w.        *)
(***************************************************************************)
MaxLen == 12
MaxWidth == 4

\* cluster_profile of a sequence of length n at base width w.
BaseVector(n, w) == [j \in 1..Ceil(n, w) |-> 1]

PadInit ==
    /\ InitWith(ExampleInput)
    /\ \E n \in 1..MaxLen, w \in 1..MaxWidth :
          pad = [n |-> n, w |-> w, k |-> 0 - 1, grouped |-> 0, arr_len |-> 0, final |-> 0]

\* One pass of the resolution loop over the vector, for the level after
\* pad.k: arr_len, the first padding with the reshape and sum, and the
\* second padding.
PadLevel ==
    /\ pad.k < NumLevels - 1
    /\ LET k   == pad.k + 1
           exp == Pow2(k)
           len == Ceil(pad.n, pad.w * exp)
           arr == ReshapeSum(BaseVector(pad.n, pad.w), exp)
       IN pad' = [pad EXCEPT !.k = k,
                             !.arr_len = len,
                             !.grouped = Len(arr),
                             !.final = Len(PadTo(arr, len))]
    /\ UNCHANGED <<in_mtx, in_barcodes_df, in_bins_df, in_clusters_df, starting_resolution,
                   store_groups, store_arrays, store_attrs, bins_df, cluster_ids, chr_mtx,
                   pc, chr_i, cluster_i, res_i, attr_i, calls, err, prev_store,
                   cell_sets_json, file_defs>>

PadNext == PadLevel

PadSpec == PadInit /\ [][PadNext]_vars

\* C28: for every sequence length n >= 1, base width w >= 1 and level k in
\* 0..15, grouping the base vector of ceil(n / w) values into runs of 2^k
\* after right-padding it to a multiple of 2^k yields exactly
\* ceil(n / (w * 2^k)) elements, so the second padding adds nothing.
C28_SecondPaddingNeverNeeded ==
    pad.k >= 0 =>
        /\ pad.grouped = Ceil(pad.n, pad.w * Pow2(pad.k))
        /\ pad.grouped = pad.arr_len
        /\ pad.final = pad.grouped

\* A level above the base where neither the sequence length is a multiple of
\* the base width nor the base vector a multiple of the run length, and
\* more than one run results.
C28_Witness ==
    /\ pad.k >= 1
    /\ pad.n % pad.w # 0
    /\ Ceil(pad.n, pad.w) % Pow2(pad.k) # 0
    /\ pad.grouped >= 2
    /\ pad.final = pad.grouped

====
